---- MODULE Spec2Model ----
(***************************************************************************)
(* MAESTRO component risk evaluator (c_app.py / crane_app.py): the         *)
(* normalizer, the tolerance comparator, the matcher, the alternative      *)
(* suggester, the bulk evaluator on a thread pool, and the program store.  *)
(* The two files carry the same functions; the line numbers of the map are *)
(* those of c_app.py.                                                      *)
(*                                                                         *)
(* A Python string is a sequence of one-character strings; the micro sign  *)
(* is the character "micro" and the ohm sign the character "Omega".  A     *)
(* Python dict is a function from its keys; a Python list is a sequence.   *)
(***************************************************************************)
EXTENDS Integers, Sequences, FiniteSets, TLC

VARIABLES pc,
          nx, ny, nz,
          component_data, sae_specs, user_inputs, mret,
          candidates,
          component_df, queue, running, fut, results, order,
          files, handle, saved, failed, loaded

nvars == <<nx, ny, nz>>
ivars == <<component_data, sae_specs, user_inputs>>
mvars == <<mret>>
svars == <<candidates>>
bvars == <<component_df, queue, running, fut, results, order>>
pvars == <<files, handle, saved, failed, loaded>>
vars == <<pc, nvars, ivars, mvars, svars, bvars, pvars>>

(***************************************************************************)
(* Bounds                                                                  *)
(***************************************************************************)
MaxLen == 3
MaxSpecs == 2
MaxRows == 3
NumWorkers == 2

(***************************************************************************)
(* Strings                                                                 *)
(***************************************************************************)
S_res == <<"r", "e", "s">>
S_cap == <<"c", "a", "p">>
S_smd == <<"s", "m", "d">>
S_SMD == <<"S", "M", "D">>
S_tht == <<"t", "h", "t">>
S_0 == <<"0">>
S_1k == <<"1", "k">>
S_1000 == <<"1", "0", "0", "0">>
S_100 == <<"1", "0", "0">>
S_104 == <<"1", "0", "4">>
S_106 == <<"1", "0", "6">>
S_10uF == <<"1", "0", "u", "F">>
S_blank == <<" ">>
S_id1 == <<"S", "1">>
S_NA == <<"N", "/", "A">>
S_P1 == <<"P", "1">>
S_P2 == <<"P", "2">>

Digits == {"0", "1", "2", "3", "4", "5", "6", "7", "8", "9"}

DigitVal(c) ==
  CASE c = "0" -> 0 [] c = "1" -> 1 [] c = "2" -> 2 [] c = "3" -> 3
    [] c = "4" -> 4 [] c = "5" -> 5 [] c = "6" -> 6 [] c = "7" -> 7
    [] c = "8" -> 8 [] c = "9" -> 9

RECURSIVE Replace(_, _, _)
Replace(s, old, new) ==
  IF s = <<>> THEN <<>>
  ELSE (IF Head(s) = old THEN new ELSE <<Head(s)>>) \o Replace(Tail(s), old, new)

LowerChar(c) ==
  CASE c = "K" -> "k" [] c = "F" -> "f" [] c = "S" -> "s" [] c = "P" -> "p"
    [] c = "N" -> "n" [] c = "A" -> "a" [] c = "M" -> "m" [] c = "D" -> "d"
    [] OTHER -> c

Lower(s) == [i \in 1..Len(s) |-> LowerChar(s[i])]

IsSpace(c) == c = " "

RECURSIVE LStrip(_)
LStrip(s) == IF s # <<>> /\ IsSpace(Head(s)) THEN LStrip(Tail(s)) ELSE s

RECURSIVE RStrip(_)
RStrip(s) ==
  IF s # <<>> /\ IsSpace(s[Len(s)]) THEN RStrip(SubSeq(s, 1, Len(s) - 1)) ELSE s

Strip(s) == RStrip(LStrip(s))

\* value.replace(micro, "u").replace(Omega, "ohm").replace("k", "000").lower(), then strip
normalize_units(value) ==
  Strip(Lower(Replace(Replace(Replace(value, "micro", <<"u">>),
                              "Omega", <<"o", "h", "m">>),
                      "k", <<"0", "0", "0">>)))

(***************************************************************************)
(* float() on the strings the matcher hands it (already stripped): an      *)
(* optional sign followed by decimal digits parses, anything else raises.  *)
(***************************************************************************)
HasDigit(s) == \E i \in 1..Len(s) : s[i] \in Digits

AllDigits(s) == s # <<>> /\ \A i \in 1..Len(s) : s[i] \in Digits

RECURSIVE DecVal(_)
DecVal(s) == IF s = <<>> THEN 0 ELSE 10 * DecVal(SubSeq(s, 1, Len(s) - 1)) + DigitVal(s[Len(s)])

FloatOk(s) ==
  \/ AllDigits(s)
  \/ s # <<>> /\ Head(s) \in {"-", "+"} /\ AllDigits(Tail(s))

FloatVal(s) ==
  IF Head(s) = "-" THEN 0 - DecVal(Tail(s))
  ELSE IF Head(s) = "+" THEN DecVal(Tail(s))
  ELSE DecVal(s)

Abs(n) == IF n < 0 THEN 0 - n ELSE n

\* abs(e - a) / e <= 0.05, on integers: e > 0 gives 20*|e-a| <= e, e < 0 gives a
\* non-positive quotient, e = 0 raises ZeroDivisionError, which is caught.
within_tolerance(expected, actual) ==
  IF ~(FloatOk(expected) /\ FloatOk(actual)) THEN FALSE
  ELSE LET e == FloatVal(expected)
           a == FloatVal(actual)
       IN  IF e = 0 THEN FALSE
           ELSE IF e > 0 THEN 20 * Abs(e - a) <= e
           ELSE TRUE

(***************************************************************************)
(* Matcher                                                                 *)
(***************************************************************************)
\* the sidebar's key list; user_inputs is filled, and so iterated, in this order
input_keys == <<"type", "value", "tolerance", "voltage", "package", "temp_rating">>

\* d.get(key, "")
Get(d, key) == IF key \in DOMAIN d THEN d[key] ELSE <<>>

\* d.get(key, 'N/A')
GetOrNA(d, key) == IF key \in DOMAIN d THEN d[key] ELSE S_NA

IsIn(k, d) == k \in DOMAIN d

UserKeys(user) == SelectSeq(input_keys, LAMBDA k : IsIn(k, user))

Reason(kind, key, a, b) == [kind |-> kind, key |-> key, a |-> a, b |-> b]

\* the body of "for key in user_inputs" for one key; st is <<match, reasons>>
CheckKey(spec, comp, user, key, st) ==
  LET spec_val == normalize_units(Get(spec, key))
      comp_val == normalize_units(Get(comp, key))
      user_val == normalize_units(user[key])
  IN  IF comp_val = <<>> \/ spec_val = <<>>
      THEN [match |-> FALSE,
            reasons |-> Append(st.reasons, Reason("Missing key", key, <<>>, <<>>))]
      ELSE LET st1 == IF spec_val # user_val
                      THEN [match |-> FALSE,
                            reasons |-> Append(st.reasons,
                                               Reason("Mismatch", key, user_val, spec_val))]
                      ELSE st
           IN  IF HasDigit(comp_val) /\ HasDigit(spec_val)
                    /\ ~within_tolerance(spec_val, comp_val)
               THEN [match |-> FALSE,
                     reasons |-> Append(st1.reasons,
                                        Reason("Out of tolerance", key, comp_val, spec_val))]
               ELSE st1

RECURSIVE KeyLoop(_, _, _, _, _)
KeyLoop(spec, comp, user, keys, st) ==
  IF keys = <<>> THEN st
  ELSE KeyLoop(spec, comp, user, Tail(keys), CheckKey(spec, comp, user, Head(keys), st))

\* one iteration of "for spec in sae_specs": match = True, reasons = [], the key loop
CheckSpec(spec, comp, user) ==
  KeyLoop(spec, comp, user, UserKeys(user), [match |-> TRUE, reasons |-> <<>>])

MatchResult(status, match, text, id, issues) ==
  [status |-> status, match |-> match, text |-> text, id |-> id, issues |-> issues]

NotCalled == MatchResult("none", FALSE, "", <<>>, <<>>)

\* the local variable reasons after the loop: unbound when the loop body never ran,
\* else what the last iteration left in it
RECURSIVE SpecLoop(_, _, _, _, _)
SpecLoop(comp, specs, user, i, reasons) ==
  IF i > Len(specs)
  THEN IF reasons.bound
       THEN MatchResult("returned", FALSE, "No SAE spec match found. Issues: ",
                        <<>>, reasons.val)
       ELSE MatchResult("raised", FALSE, "NameError", <<>>, <<>>)
  ELSE LET st == CheckSpec(specs[i], comp, user)
       IN  IF st.match
           THEN MatchResult("returned", TRUE, "Component matches SAE specification: ",
                            GetOrNA(specs[i], "id"), <<>>)
           ELSE SpecLoop(comp, specs, user, i + 1, [bound |-> TRUE, val |-> st.reasons])

match_component_to_spec(comp, specs, user) ==
  SpecLoop(comp, specs, user, 1, [bound |-> FALSE, val |-> <<>>])

(***************************************************************************)
(* Alternative suggester                                                   *)
(***************************************************************************)
\* a dict iterates its keys in insertion order: the column order of the table
columns == <<"part_number", "id", "type", "value", "tolerance", "voltage",
             "package", "temp_rating">>

DictKeys(d) == SelectSeq(columns, LAMBDA k : IsIn(k, d))

\* the tuple (k, component[k], spec[k])
Triple(k, c, s) == [py |-> "tuple", k |-> k, c |-> c, s |-> s]

RECURSIVE Differences(_, _, _)
Differences(component, spec, keys) ==
  IF keys = <<>> THEN <<>>
  ELSE LET k == Head(keys)
       IN  (IF k \in DOMAIN spec
               /\ normalize_units(component[k]) # normalize_units(spec[k])
            THEN <<Triple(k, component[k], spec[k])>>
            ELSE <<>>)
           \o Differences(component, spec, Tail(keys))

\* len(differences) <= 2
MaxDifferences == 2

IsCandidate_three(differences) == Len(differences) <= MaxDifferences + 1

IsCandidate(differences) == Len(differences) <= MaxDifferences

RECURSIVE suggest_alternatives(_, _)
suggest_alternatives(component, specs) ==
  IF specs = <<>> THEN <<>>
  ELSE LET differences == Differences(component, Head(specs), DictKeys(component))
       IN  (IF IsCandidate(differences)
            THEN <<[spec |-> Head(specs), differences |-> differences]>>
            ELSE <<>>)
           \o suggest_alternatives(component, Tail(specs))

(***************************************************************************)
(* Bulk evaluator: one row                                                 *)
(***************************************************************************)
generate_component_summary(component, match, reason) ==
  IF match
  THEN [head |-> "meets all program and SAE specifications",
        part |-> GetOrNA(component, "part_number"), reason |-> reason]
  ELSE [head |-> "does not meet required specifications",
        part |-> GetOrNA(component, "part_number"), reason |-> reason]

risk_reduction_swapped(is_match) == IF is_match THEN 0 ELSE 100

risk_reduction(is_match) == IF ~is_match THEN 0 ELSE 100

ReasonOf(m) == [text |-> m.text, id |-> m.id, issues |-> m.issues]

\* the call of match_component_to_spec in evaluate_row raises (NameError), and
\* with it evaluate_row
evaluate_row_raises(row, specs, user) ==
  match_component_to_spec(row, specs, user).status = "raised"

\* the dict evaluate_row returns
evaluate_row(row, specs, user) ==
  LET m == match_component_to_spec(row, specs, user)
      is_match == m.match
      reason == ReasonOf(m)
  IN  [component |-> row,
       match |-> is_match,
       reason |-> reason,
       summary |-> generate_component_summary(row, is_match, reason),
       alternatives |-> IF ~is_match THEN suggest_alternatives(row, specs) ELSE <<>>,
       risk_reduction |-> risk_reduction(is_match)]

(***************************************************************************)
(* Inputs                                                                  *)
(***************************************************************************)
\* the dicts with keys among K and, for a key k, a value of V[k]
Dicts(K, V) ==
  UNION { { d \in [D -> UNION { V[k] : k \in D }] : \A k \in D : d[k] \in V[k] }
          : D \in SUBSET K }

\* the sequences over S of length at most n
SeqsUpTo(S, n) == UNION { [1..m -> S] : m \in 0..n }

Alphabet == {"k", "K", "micro", "Omega", "1", " "}

Idle == [p \in {} |-> 0]

NoLoad == [status |-> "none", name |-> "", kind |-> "", data |-> <<>>]

NoHandle == [open |-> FALSE, name |-> "", data |-> <<>>, pos |-> 0]

InitNormalizer == /\ nx = <<>> /\ ny = <<>> /\ nz = <<>>
InitInputs == /\ component_data = Idle /\ sae_specs = <<>> /\ user_inputs = Idle
InitMatcher == mret = NotCalled
InitSuggester == candidates = <<>>
InitBulk == /\ component_df = <<>> /\ queue = <<>> /\ running = <<>>
            /\ fut = <<>> /\ order = <<>>
            /\ results = [raised |-> <<>>, value |-> <<>>, list |-> <<>>]
InitStore == /\ files = Idle /\ handle = NoHandle /\ saved = Idle
             /\ failed = Idle /\ loaded = NoLoad

(***************************************************************************)
(* Normalizer: normalize_units applied to a string, then to its result     *)
(***************************************************************************)
NormInit ==
  /\ pc = "start"
  /\ nx \in SeqsUpTo(Alphabet, MaxLen)
  /\ ny = <<>> /\ nz = <<>>
  /\ InitInputs /\ InitMatcher /\ InitSuggester /\ InitBulk /\ InitStore

NormalizeOnce ==
  /\ pc = "start"
  /\ ny' = normalize_units(nx)
  /\ pc' = "once"
  /\ UNCHANGED <<nx, nz, ivars, mvars, svars, bvars, pvars>>

NormalizeTwice ==
  /\ pc = "once"
  /\ nz' = normalize_units(ny)
  /\ pc' = "twice"
  /\ UNCHANGED <<nx, ny, ivars, mvars, svars, bvars, pvars>>

NormNext == NormalizeOnce \/ NormalizeTwice

SpecNormalize == NormInit /\ [][NormNext]_vars

\* C5: normalize_units is idempotent: normalize_units(normalize_units(x)) equals
\* normalize_units(x) for every string x over the alphabet
C5_Idempotent == pc = "twice" => nz = ny

(***************************************************************************)
(* Matcher: match_component_to_spec called once on drawn inputs            *)
(***************************************************************************)
MatchKeys == {"type", "value"}

ComponentValues ==
  [type |-> {S_res, S_cap}, value |-> {S_0, S_100, S_104, S_106, S_10uF, S_blank}]

SpecValues ==
  [type |-> {S_res, S_cap}, value |-> {S_0, S_100, S_10uF}, id |-> {S_id1}]

\* the sidebar strips each entry and leaves out the blank ones
UserValues == [type |-> {S_res, S_cap}, value |-> {S_100, S_10uF}]

MatchInit ==
  /\ pc = "start"
  /\ component_data \in Dicts(MatchKeys, ComponentValues)
  /\ sae_specs \in SeqsUpTo(Dicts(MatchKeys \cup {"id"}, SpecValues), MaxSpecs)
  /\ user_inputs \in Dicts(MatchKeys, UserValues)
  /\ InitNormalizer /\ InitMatcher /\ InitSuggester /\ InitBulk /\ InitStore

CallMatch ==
  /\ pc = "start"
  /\ mret' = match_component_to_spec(component_data, sae_specs, user_inputs)
  /\ pc' = "done"
  /\ UNCHANGED <<nvars, ivars, svars, bvars, pvars>>

MatchNext == CallMatch

SpecMatch == MatchInit /\ [][MatchNext]_vars

\* the requirement fields
Required == DOMAIN user_inputs

Returned == pc = "done" /\ mret.status = "returned"

\* |u - c| is at most 5% of |u|
WithinFivePercent(u, c) ==
  /\ FloatOk(u) /\ FloatOk(c)
  /\ 20 * Abs(FloatVal(u) - FloatVal(c)) <= Abs(FloatVal(u))

ComponentMeets(k) ==
  LET c == normalize_units(Get(component_data, k))
      u == normalize_units(user_inputs[k])
  IN  c = u \/ WithinFivePercent(u, c)

\* C1: whenever match_component_to_spec returns match = true under a non-empty
\* requirement, the component meets every requirement: its normalized value
\* equals the normalized required value or lies within 5% of it
C1_MatchMeansComponentMeets ==
  (Returned /\ mret.match /\ Required # {}) => \A k \in Required : ComponentMeets(k)

\* spec, component and requirement carry the same non-empty value on every
\* requirement field
Identical(spec) ==
  \A k \in Required :
     /\ k \in DOMAIN spec /\ k \in DOMAIN component_data
     /\ spec[k] = component_data[k]
     /\ spec[k] = user_inputs[k]
     /\ normalize_units(spec[k]) # <<>>

\* C2: when some spec of the sequence is identical to the component on every
\* requirement field (the requirement asking for those very values), and the
\* values are non-empty, match_component_to_spec returns match = true
C2_IdenticalMatches ==
  (pc = "done" /\ Required # {} /\ \E i \in 1..Len(sae_specs) : Identical(sae_specs[i]))
     => (mret.status = "returned" /\ mret.match)

InSeq(x, q) == \E j \in 1..Len(q) : q[j] = x

NoneAccepted ==
  \A i \in 1..Len(sae_specs) : ~CheckSpec(sae_specs[i], component_data, user_inputs).match

\* C3: when no spec is accepted, for every spec sequence, the empty one too,
\* match_component_to_spec returns (false, reason) and reason holds every reason
\* recorded for every rejected spec
C3_AllReasonsReported ==
  (pc = "done" /\ NoneAccepted) =>
     /\ mret.status = "returned" /\ ~mret.match
     /\ \A i \in 1..Len(sae_specs) :
           LET rs == CheckSpec(sae_specs[i], component_data, user_inputs).reasons
           IN  \A j \in 1..Len(rs) : InSeq(rs[j], mret.issues)

\* C4: for a component lacking a requirement field and any spec sequence, the
\* empty one too, match_component_to_spec returns match = false with a reason
\* that mentions "Missing key", and does not raise
C4_MissingKeyReported ==
  (pc = "done" /\ \E k \in Required : k \notin DOMAIN component_data) =>
     /\ mret.status = "returned" /\ ~mret.match
     /\ \E j \in 1..Len(mret.issues) : mret.issues[j].kind = "Missing key"

(***************************************************************************)
(* Suggester: suggest_alternatives called once on drawn inputs             *)
(***************************************************************************)
SuggestKeys == {"type", "value", "package"}

SuggestComponentValues ==
  [type |-> {S_res, S_cap}, value |-> {S_1k, S_100}, package |-> {S_smd, S_tht}]

SuggestSpecValues ==
  [type |-> {S_res, S_cap}, value |-> {S_1000, S_100}, package |-> {S_SMD, S_tht}]

SuggestInit ==
  /\ pc = "start"
  /\ component_data \in Dicts(SuggestKeys, SuggestComponentValues)
  /\ sae_specs \in SeqsUpTo(Dicts(SuggestKeys, SuggestSpecValues), MaxSpecs)
  /\ user_inputs = Idle
  /\ InitNormalizer /\ InitMatcher /\ InitSuggester /\ InitBulk /\ InitStore

CallSuggest ==
  /\ pc = "start"
  /\ candidates' = suggest_alternatives(component_data, sae_specs)
  /\ pc' = "done"
  /\ UNCHANGED <<nvars, ivars, mvars, bvars, pvars>>

SuggestNext == CallSuggest

SpecSuggest == SuggestInit /\ [][SuggestNext]_vars

\* the fields present in both on which the normalized values differ
DiffFields(c, s) ==
  { k \in DOMAIN c \cap DOMAIN s : normalize_units(c[k]) # normalize_units(s[k]) }

Indices(q) == [i \in 1..Len(q) |-> i]

Qualifies(i) == Cardinality(DiffFields(component_data, sae_specs[i])) <= 2

Qualifying == SelectSeq(Indices(sae_specs), Qualifies)

\* C9: suggest_alternatives returns exactly one candidate for each spec that
\* differs from the component in at most two of the fields present in both, in
\* spec order, and never a candidate with 3 or more differences
C9_Candidates ==
  pc = "done" =>
     /\ Len(candidates) = Len(Qualifying)
     /\ \A j \in 1..Len(candidates) :
           /\ candidates[j].spec = sae_specs[Qualifying[j]]
           /\ Len(candidates[j].differences) < 3
           /\ { candidates[j].differences[n].k : n \in 1..Len(candidates[j].differences) }
                 = DiffFields(component_data, candidates[j].spec)
           /\ Len(candidates[j].differences)
                 = Cardinality(DiffFields(component_data, candidates[j].spec))

\* a spec with three differences was left out and one with two was kept
C9_Witness ==
  /\ pc = "done"
  /\ Len(candidates) < Len(sae_specs)
  /\ \E j \in 1..Len(candidates) : Len(candidates[j].differences) = 2

(***************************************************************************)
(* Bulk evaluator: process_bulk_components on a ThreadPoolExecutor.        *)
(* executor.map submits one future per row, in row order; the workers take *)
(* the submitted rows off the work queue and finish them in any order;     *)
(* list() draws the results from the iterator map returned; leaving the    *)
(* with block waits for the workers.                                       *)
(***************************************************************************)
RowA == [part_number |-> S_P1, type |-> S_res, value |-> S_104]
RowB == [part_number |-> S_P2, type |-> S_cap, value |-> S_106, package |-> S_smd]
RowC == [type |-> S_res]

BulkRows == {RowA, RowB, RowC}

SpecA == [id |-> S_id1, type |-> S_res, value |-> S_100, package |-> S_SMD]
SpecB == [type |-> S_cap, value |-> S_1k]

BulkSpecs == {<<>>, <<SpecA>>, <<SpecB, SpecA>>}

BulkUsers == {[type |-> S_res, value |-> S_100], [type |-> S_cap]}

Workers == 1..NumWorkers

NRows == Len(component_df)

BulkInit ==
  /\ pc = "map"
  /\ component_df \in SeqsUpTo(BulkRows, MaxRows)
  /\ sae_specs \in BulkSpecs
  /\ user_inputs \in BulkUsers
  /\ component_data = Idle
  /\ queue = <<>>
  /\ running = [w \in Workers |-> 0]
  /\ fut = [i \in 1..Len(component_df) |-> "none"]
  /\ results = [raised |-> [i \in 1..Len(component_df) |-> FALSE],
                value |-> [i \in 1..Len(component_df) |-> <<>>],
                list |-> <<>>]
  /\ order = <<>>
  /\ InitNormalizer /\ InitMatcher /\ InitSuggester /\ InitStore

Submitted == { i \in 1..NRows : fut[i] # "none" }

\* executor.map: fs = [self.submit(fn, row) for row in rows], one row at a time
Submit ==
  /\ pc = "map"
  /\ Cardinality(Submitted) < NRows
  /\ LET i == Cardinality(Submitted) + 1
     IN  /\ fut' = [fut EXCEPT ![i] = "pending"]
         /\ queue' = Append(queue, i)
  /\ UNCHANGED <<pc, nvars, ivars, mvars, svars, component_df, running, results,
                 order, pvars>>

\* map returns its result iterator and list() starts to draw from it
StartCollect ==
  /\ pc = "map"
  /\ Cardinality(Submitted) = NRows
  /\ pc' = "collect"
  /\ UNCHANGED <<nvars, ivars, mvars, svars, bvars, pvars>>

\* a worker thread takes the next work item; a cancelled one is dropped
WorkerTake(w) ==
  /\ running[w] = 0
  /\ queue # <<>>
  /\ queue' = Tail(queue)
  /\ IF fut[Head(queue)] = "cancelled"
     THEN UNCHANGED <<running, fut>>
     ELSE /\ running' = [running EXCEPT ![w] = Head(queue)]
          /\ fut' = [fut EXCEPT ![Head(queue)] = "running"]
  /\ UNCHANGED <<pc, nvars, ivars, mvars, svars, component_df, results, order, pvars>>

\* the worker runs evaluate_row on its row and sets the future's result or exception
WorkerFinish(w) ==
  /\ running[w] # 0
  /\ LET i == running[w]
     IN  /\ fut' = [fut EXCEPT ![i] = "finished"]
         /\ results' =
              [results EXCEPT
                 !.raised[i] = evaluate_row_raises(component_df[i], sae_specs, user_inputs),
                 !.value[i] = IF evaluate_row_raises(component_df[i], sae_specs, user_inputs)
                              THEN <<>>
                              ELSE <<evaluate_row(component_df[i], sae_specs, user_inputs)>>]
         /\ order' = Append(order, i)
  /\ running' = [running EXCEPT ![w] = 0]
  /\ UNCHANGED <<pc, nvars, ivars, mvars, svars, component_df, queue, pvars>>

\* a future in completion order, as as_completed would hand them out
NextFuture_completed(list, done) ==
  IF Len(done) > Len(list) THEN done[Len(list) + 1] ELSE 0

\* the future the result iterator waits on next: fs in submission order
NextFuture(list, done) == Len(list) + 1

\* the iterator yields the next future's result and list() appends it
Yield ==
  /\ pc = "collect"
  /\ Len(results.list) < NRows
  /\ LET i == NextFuture(results.list, order)
     IN  /\ i \in 1..NRows
         /\ fut[i] = "finished"
         /\ ~results.raised[i]
         /\ results' = [results EXCEPT !.list = Append(results.list, results.value[i][1])]
  /\ UNCHANGED <<pc, nvars, ivars, mvars, svars, component_df, queue, running, fut,
                 order, pvars>>

\* the next future holds an exception: result() re-raises it, and the iterator's
\* finally clause cancels the futures that are still pending
YieldRaise ==
  /\ pc = "collect"
  /\ Len(results.list) < NRows
  /\ LET i == NextFuture(results.list, order)
     IN  /\ i \in 1..NRows
         /\ fut[i] = "finished"
         /\ results.raised[i]
  /\ fut' = [i \in 1..NRows |-> IF fut[i] = "pending" THEN "cancelled" ELSE fut[i]]
  /\ pc' = "raising"
  /\ UNCHANGED <<nvars, ivars, mvars, svars, component_df, queue, running, results,
                 order, pvars>>

WorkersIdle == queue = <<>> /\ \A w \in Workers : running[w] = 0

\* the with block is left on the exception: shutdown(wait=True), then it propagates
Raise ==
  /\ pc = "raising"
  /\ WorkersIdle
  /\ pc' = "raised"
  /\ UNCHANGED <<nvars, ivars, mvars, svars, bvars, pvars>>

\* every row is in the list: the with block is left and the list returned
Return ==
  /\ pc = "collect"
  /\ Len(results.list) = NRows
  /\ WorkersIdle
  /\ pc' = "returned"
  /\ UNCHANGED <<nvars, ivars, mvars, svars, bvars, pvars>>

BulkNext ==
  \/ Submit
  \/ StartCollect
  \/ \E w \in Workers : WorkerTake(w)
  \/ \E w \in Workers : WorkerFinish(w)
  \/ Yield
  \/ YieldRaise
  \/ Raise
  \/ Return

SpecBulk == BulkInit /\ [][BulkNext]_vars

\* C6: the list process_bulk_components returns is aligned with the input rows:
\* it has one element per row and its i-th element is the evaluation of row i,
\* whatever the order in which the workers finished
C6_RowOrder ==
  pc = "returned" =>
     /\ Len(results.list) = Len(component_df)
     /\ \A i \in 1..Len(component_df) :
           results.list[i] = evaluate_row(component_df[i], sae_specs, user_inputs)

\* the run returned after a later row had been finished before an earlier one,
\* and the two rows evaluate differently
C6_Witness ==
  /\ pc = "returned"
  /\ \E a, b \in 1..Len(order) :
        /\ a < b /\ order[a] > order[b]
        /\ results.list[order[a]] # results.list[order[b]]

\* C10: in every result process_bulk_components produces, risk_reduction is 100
\* if and only if match is true, and 0 otherwise
C10_RiskReduction ==
  \A i \in 1..Len(results.list) :
     /\ results.list[i].risk_reduction = 100 <=> results.list[i].match
     /\ ~results.list[i].match => results.list[i].risk_reduction = 0

\* a returned list holds a matching and a non-matching component
C10_Witness ==
  /\ pc = "returned"
  /\ \E i, j \in 1..Len(results.list) :
        results.list[i].match /\ ~results.list[j].match

(***************************************************************************)
(* Program store: save_program_data and load_program_data on the files of  *)
(* local_program_data.  A file is the sequence of chunks written to it.    *)
(***************************************************************************)
MaxSaves == 2

ProgramNames == {"demo_program", "other"}

BulkResult(rows, specs, user) ==
  [i \in 1..Len(rows) |-> evaluate_row(rows[i], specs, user)]

\* result lists of process_bulk_components: none, a match, two near misses
StoreData ==
  { <<>>,
    BulkResult(<<RowA>>, <<SpecA>>, [type |-> S_res, value |-> S_100]),
    BulkResult(<<RowB, RowC>>, <<SpecB, SpecA>>, [type |-> S_res, value |-> S_100]) }

\* json.dump writes a tuple as an array, json.load reads an array as a list
Retag(result, tag) ==
  [result EXCEPT !.alternatives =
     [j \in 1..Len(result.alternatives) |->
        [result.alternatives[j] EXCEPT !.differences =
           [n \in 1..Len(result.alternatives[j].differences) |->
              [result.alternatives[j].differences[n] EXCEPT !.py = tag]]]]]

JsonEncode(result) == Retag(result, "array")

JsonDecode(doc) == Retag(doc, "list")

Chunk(tok, item) == [tok |-> tok, item |-> item]

\* the chunks json.dump(data, f, indent=2) writes for a list, one write each
Chunks(data) ==
  IF data = <<>> THEN <<Chunk("[]", <<>>)>>
  ELSE <<Chunk("[", <<>>)>>
       \o [i \in 1..Len(data) |-> Chunk("item", <<JsonEncode(data[i])>>)]
       \o <<Chunk("]", <<>>)>>

\* the text is one complete JSON array
WellFormed(text) ==
  \/ text = <<Chunk("[]", <<>>)>>
  \/ /\ Len(text) >= 3
     /\ text[1].tok = "[" /\ text[Len(text)].tok = "]"
     /\ \A i \in 2..(Len(text) - 1) : text[i].tok = "item"

Items(text) ==
  IF Len(text) < 3 THEN <<>>
  ELSE [i \in 1..(Len(text) - 2) |-> JsonDecode(text[i + 1].item[1])]

NoFile == [exists |-> FALSE, text |-> <<>>]

\* open(path, "a"): the old content stays
OpenForAppend(file) == [exists |-> TRUE, text |-> file.text]

\* open(path, "w"): the file is created or truncated
OpenForWrite(file) == [exists |-> TRUE, text |-> <<>>]

Loaded(status, name, kind, data) ==
  [status |-> status, name |-> name, kind |-> kind, data |-> data]

\* load_program_data: {} without a file, else json.load of it, which raises
\* JSONDecodeError on anything but a complete document
load_program_data(name, file) ==
  IF ~file.exists THEN Loaded("ok", name, "dict", <<>>)
  ELSE IF WellFormed(file.text) THEN Loaded("ok", name, "list", Items(file.text))
  ELSE Loaded("raised", name, "JSONDecodeError", <<>>)

StoreInit ==
  /\ pc = "idle"
  /\ files = [n \in ProgramNames |-> NoFile]
  /\ handle = NoHandle
  /\ saved = [n \in ProgramNames |-> <<>>]
  /\ failed = [n \in ProgramNames |-> FALSE]
  /\ loaded = NoLoad
  /\ InitNormalizer /\ InitInputs /\ InitMatcher /\ InitSuggester /\ InitBulk

\* save_program_data enters the with block: open(path, "w")
SaveOpen(name, data) ==
  /\ pc = "idle"
  /\ Len(saved[name]) < MaxSaves
  /\ files' = [files EXCEPT ![name] = OpenForWrite(files[name])]
  /\ handle' = [open |-> TRUE, name |-> name, data |-> data, pos |-> 0]
  /\ loaded' = NoLoad
  /\ pc' = "saving"
  /\ UNCHANGED <<nvars, ivars, mvars, svars, bvars, saved, failed>>

\* json.dump writes its next chunk
SaveWrite ==
  /\ pc = "saving"
  /\ handle.pos < Len(Chunks(handle.data))
  /\ files' = [files EXCEPT ![handle.name].text =
                 Append(files[handle.name].text, Chunks(handle.data)[handle.pos + 1])]
  /\ handle' = [handle EXCEPT !.pos = handle.pos + 1]
  /\ UNCHANGED <<pc, nvars, ivars, mvars, svars, bvars, saved, failed, loaded>>

\* json.dump is through and the with block closes the file
SaveClose ==
  /\ pc = "saving"
  /\ handle.pos = Len(Chunks(handle.data))
  /\ saved' = [saved EXCEPT ![handle.name] = Append(saved[handle.name], handle.data)]
  /\ failed' = [failed EXCEPT ![handle.name] = FALSE]
  /\ handle' = NoHandle
  /\ pc' = "idle"
  /\ UNCHANGED <<nvars, ivars, mvars, svars, bvars, files, loaded>>

\* json.dump raises part-way (a value it cannot serialize, a write error): the
\* with block closes the file and the exception goes to the handler's except
SaveFail ==
  /\ pc = "saving"
  /\ handle.pos < Len(Chunks(handle.data))
  /\ failed' = [failed EXCEPT ![handle.name] = TRUE]
  /\ handle' = NoHandle
  /\ pc' = "idle"
  /\ UNCHANGED <<nvars, ivars, mvars, svars, bvars, files, saved, loaded>>

Load(name) ==
  /\ pc = "idle"
  /\ loaded' = load_program_data(name, files[name])
  /\ UNCHANGED <<pc, nvars, ivars, mvars, svars, bvars, files, handle, saved, failed>>

StoreNext ==
  \/ \E name \in ProgramNames, data \in StoreData : SaveOpen(name, data)
  \/ SaveWrite
  \/ SaveClose
  \/ SaveFail
  \/ \E name \in ProgramNames : Load(name)

SpecStore == StoreInit /\ [][StoreNext]_vars

Last(q) == q[Len(q)]

\* the result list with every differences triple as a list
AsLists(data) ==
  [i \in 1..Len(data) |->
     [data[i] EXCEPT !.alternatives =
        [j \in 1..Len(data[i].alternatives) |->
           [spec |-> data[i].alternatives[j].spec,
            differences |->
              [n \in 1..Len(data[i].alternatives[j].differences) |->
                 [py |-> "list",
                  k |-> data[i].alternatives[j].differences[n].k,
                  c |-> data[i].alternatives[j].differences[n].c,
                  s |-> data[i].alternatives[j].differences[n].s]]]]]]

HasTriples(data) ==
  \E i \in 1..Len(data) : \E j \in 1..Len(data[i].alternatives) :
     data[i].alternatives[j].differences # <<>>

\* load_program_data has returned or raised for a name
LoadDone(name) == loaded.status # "none" /\ loaded.name = name

\* C7: a save_program_data that failed part-way leaves the program saved under
\* the name before it uncorrupted: load_program_data still returns the result
\* list saved before
C7_FailedSaveKeepsProgram ==
  \A name \in ProgramNames :
     (LoadDone(name) /\ failed[name] /\ saved[name] # <<>>) =>
        (loaded.status = "ok" /\ loaded.data = AsLists(Last(saved[name])))

\* C8: after successful, non-overlapping saves, load_program_data(name) returns
\* exactly the result list saved last under name, and an empty result when
\* nothing was saved under it
C8_RoundTripExact ==
  \A name \in ProgramNames :
     (LoadDone(name) /\ ~failed[name]) =>
        /\ loaded.status = "ok"
        /\ saved[name] # <<>> => loaded.data = Last(saved[name])
        /\ saved[name] = <<>> => loaded.data = <<>>

\* C8, amended: load_program_data(name) returns the result list saved last under
\* name with every differences triple read back as a list, so exactly that list
\* when it holds no triple; earlier saves and saves under other names do not
\* show; an empty dict when nothing was saved under name
C8_RoundTripAsLists ==
  \A name \in ProgramNames :
     (LoadDone(name) /\ ~failed[name]) =>
        /\ loaded.status = "ok"
        /\ saved[name] # <<>> =>
              /\ loaded.kind = "list"
              /\ loaded.data = AsLists(Last(saved[name]))
              /\ ~HasTriples(Last(saved[name])) => loaded.data = Last(saved[name])
        /\ saved[name] = <<>> => (loaded.kind = "dict" /\ loaded.data = <<>>)

\* a list with triples was loaded back after it had overwritten another list
\* under its name, a different list being saved under the other name
C8_Witness ==
  \E name, other \in ProgramNames :
     /\ name # other
     /\ LoadDone(name) /\ ~failed[name] /\ loaded.status = "ok"
     /\ Len(saved[name]) = 2
     /\ saved[name][1] # saved[name][2]
     /\ HasTriples(saved[name][2])
     /\ saved[other] # <<>> /\ Last(saved[other]) # Last(saved[name])

====
